---- MODULE Spec2Model ----
(***************************************************************************)
(* Task-manager backend (Express + Mongoose): the user model with its      *)
(* bcrypt pre-save hook, the JWT auth middleware, the /auth routes and the *)
(* owner-scoped /tasks routes.                                             *)
(*                                                                         *)
(* Strings are sequences of one-character strings, so that trimming,      *)
(* lower-casing, truncation and regular-expression matching are computed.  *)
(* Request bodies are drawn from values the express-validator chains       *)
(* accept (validationResult(req) is empty), which is what the handlers     *)
(* assume after their first two lines.                                     *)
(*                                                                         *)
(* A handler whose promise rejects (a driver error, a thrown jwt error) is *)
(* not caught by the handler itself: depending on the Express major        *)
(* version the rejection reaches errorHandler (500 "Server Error") or is   *)
(* left unhandled and no response is written.  Both outcomes are kept.     *)
(***************************************************************************)
EXTENDS Integers, Sequences, FiniteSets, Bags, TLC

VARIABLES
    secret,     \* process.env.JWT_SECRET ("" when absent)
    now,        \* Date.now(), milliseconds
    users,      \* the users collection
    tasks,      \* the tasks collection
    nextTask,   \* next task _id to allocate
    tokens,     \* tokens handed out by login, each with the instant of its login
    pending,    \* bag of requests suspended at an await: register requests between
                \* findOne and create, task requests whose driver call is on its way
    last,       \* the most recent request and its response
    plain       \* history: the plaintext each user registered with, by user id

vars == <<secret, now, users, tasks, nextTask, tokens, pending, last, plain>>

----------------------------------------------------------------------------
(* Bounds of the model *)

MaxUsers == 2
MaxTokens == 2
MaxTaskIds == 2
MaxGateTasks == 1
MaxInFlight == 2
MaxTaskNow == 1

----------------------------------------------------------------------------
(* String helpers *)

Rep(c, n) == [i \in 1..n |-> c]

Min(a, b) == IF a < b THEN a ELSE b

RECURSIVE TrimStart(_)
TrimStart(s) == IF s # <<>> /\ Head(s) = " " THEN TrimStart(Tail(s)) ELSE s

RECURSIVE TrimEnd(_)
TrimEnd(s) ==
    IF s # <<>> /\ s[Len(s)] = " " THEN TrimEnd(SubSeq(s, 1, Len(s) - 1)) ELSE s

\* mongoose `trim: true`
Trim(s) == TrimEnd(TrimStart(s))

LowerChar(c) ==
    CASE c = "A" -> "a"
      [] c = "B" -> "b"
      [] c = "X" -> "x"
      [] OTHER -> c

\* mongoose `lowercase: true`
ToLowerCase(s) == [i \in 1..Len(s) |-> LowerChar(s[i])]

\* setters of the email path: lowercase, trim (applied to documents and to
\* query filters alike)
CastEmail(e) == Trim(ToLowerCase(e))

\* setters of the username path: trim
CastUsername(u) == Trim(u)

----------------------------------------------------------------------------
(* bcrypt *)

\* bcrypt uses the first 72 bytes of the password only
BcryptMaxBytes == 72

BcryptPrefix == "$2b$10$"

Salts == {"saltA", "saltB"}

BcryptInput(p) == SubSeq(p, 1, Min(Len(p), BcryptMaxBytes))

\* bcrypt.hash(password, salt): prefix, salt, then the digest, which stands
\* for exactly the bytes bcrypt reads (a one-way function of them)
BcryptHash(p, salt) == <<BcryptPrefix, salt>> \o BcryptInput(p)

\* bcrypt.compare(candidate, stored)
BcryptCompare(candidate, stored) ==
    /\ Len(stored) >= 2
    /\ stored[1] = BcryptPrefix
    /\ BcryptHash(candidate, stored[2]) = stored

\* mutant: the isModified test inverted
PreSaveSkipHash(password, isModified, salt) ==
    IF isModified THEN password ELSE BcryptHash(password, salt)

\* UserSchema.pre('save'): a new document has its password path modified
PreSavePassword(password, isModified, salt) ==
    IF ~isModified THEN password ELSE BcryptHash(password, salt)

ComparePassword(user, candidate) == BcryptCompare(candidate, user.password)

----------------------------------------------------------------------------
(* jsonwebtoken *)

\* expiresIn: '24h', in seconds
ExpiresIn == 86400

NowSec == now \div 1000

NoToken == [kind |-> "none", id |-> 0, iat |-> 0, exp |-> 0, key |-> ""]

Malformed == [kind |-> "malformed", id |-> 0, iat |-> 0, exp |-> 0, key |-> ""]

\* jwt.sign({ id }, secret, { expiresIn: '24h' })
JwtSign(id, key) ==
    [kind |-> "jwt", id |-> id, iat |-> NowSec, exp |-> NowSec + ExpiresIn,
     key |-> key]

\* mutant: verification that ignores exp
JwtVerifyIgnoreExp(token, key) ==
    /\ token.kind = "jwt"
    /\ token.key = key

\* jwt.verify(token, secret) returns the payload; FALSE here is a throw
JwtVerifyOk(token, key) ==
    /\ token.kind = "jwt"
    /\ token.key = key
    /\ ~(NowSec >= token.exp)

----------------------------------------------------------------------------
(* Unhandled rejections *)

NoResponse == 0

Unhandled == {[status |-> 500, msg |-> "Server Error"],
              [status |-> NoResponse, msg |-> ""]}

----------------------------------------------------------------------------
(* middleware/auth *)

BearerScheme == "Bearer "

\* mutant: slice(7) without the startsWith test
HeaderTokenAnyScheme(header) ==
    IF Len(header) >= 2 THEN header[2] ELSE NoToken

\* header.startsWith('Bearer ') ? header.slice(7) : ''
\* a header is <<>> (absent), <<scheme>> or <<scheme, credentials>>
HeaderToken(header) ==
    IF Len(header) >= 1 /\ header[1] = BearerScheme
    THEN (IF Len(header) >= 2 THEN header[2] ELSE NoToken)
    ELSE NoToken

Gate(next, status, msg, user, verified) ==
    [next |-> next, status |-> status, msg |-> msg, user |-> user,
     verified |-> verified]

\* mutant: no test of the key before jwt.verify, whose throw on an empty
\* key lands in the catch
AuthNoKeyTest(header) ==
    LET token == HeaderToken(header) IN
    IF token = NoToken THEN Gate(FALSE, 401, "Unauthorized", 0, FALSE)
    ELSE IF secret # "" /\ JwtVerifyOk(token, secret)
    THEN Gate(TRUE, 0, "", token.id, TRUE)
    ELSE Gate(FALSE, 401, "Unauthorized", 0, TRUE)

\* auth(req, res, next)
Auth(header) ==
    LET token == HeaderToken(header) IN
    IF token = NoToken THEN Gate(FALSE, 401, "Unauthorized", 0, FALSE)
    ELSE IF secret = "" THEN Gate(FALSE, 500, "Server config error", 0, FALSE)
    ELSE IF JwtVerifyOk(token, secret) THEN Gate(TRUE, 0, "", token.id, TRUE)
    ELSE Gate(FALSE, 401, "Unauthorized", 0, TRUE)

\* what a request leaves in `last`
Response(op, status, msg, user, handled) ==
    [op |-> op, status |-> status, msg |-> msg, user |-> user,
     handled |-> handled]

\* the response of a request the gate stopped
Stopped(op, g) == Response(op, g.status, g.msg, 0, FALSE)

----------------------------------------------------------------------------
(* routes/auth: register *)

\* the register requests suspended at `await User.create`
InFlight == BagToSet(pending)

RegisterRequest(u, e, p) == [username |-> u, email |-> e, password |-> p]

\* mutant: the existence check on the email alone
FindByEmailOnly(email, username) ==
    {usr \in users : usr.email = CastEmail(email)}

\* User.findOne({ $or: [{ email }, { username }] })
FindByEmailOrUsername(email, username) ==
    {usr \in users : usr.email = CastEmail(email)
                     \/ usr.username = CastUsername(username)}

\* the unique indexes of UserSchema (username, email) reject the insert
DuplicateKey(doc) ==
    \E usr \in users : usr.username = doc.username \/ usr.email = doc.email

NewUserId == Cardinality(users) + 1

\* new User({ username, email, password }) after the pre-save hook
UserDoc(r, salt) ==
    [id |-> NewUserId,
     username |-> CastUsername(r.username),
     email |-> CastEmail(r.email),
     password |-> PreSavePassword(r.password, TRUE, salt),
     createdAt |-> now]

\* first half of POST /register: the existence check; answers 409 or
\* suspends at `await User.create`
RegisterFind(u, e, p) ==
    /\ IF FindByEmailOrUsername(e, u) # {}
       THEN /\ last' = Response("register", 409, "User already exists", 0, TRUE)
            /\ UNCHANGED pending
       ELSE /\ BagCardinality(pending) < MaxInFlight
            /\ Cardinality(users) + BagCardinality(pending) < MaxUsers
            /\ pending' = pending (+) SetToBag({RegisterRequest(u, e, p)})
            /\ last' = Response("register.findOne", NoResponse, "", 0, TRUE)
    /\ UNCHANGED <<secret, now, users, tasks, nextTask, tokens, plain>>

\* the possible results of `await User.create(r)` and the line after it
RegisterInsert(r, salt) ==
    LET doc == UserDoc(r, salt) IN
    IF DuplicateKey(doc)
    THEN {[status |-> o.status, msg |-> o.msg, users |-> users] : o \in Unhandled}
    ELSE {[status |-> 201, msg |-> "", users |-> users \cup {doc}]}

\* POST /register run from its first line to its last with no other request
\* in between: the possible results
RegisterSequential(u, e, p, salt) ==
    IF FindByEmailOrUsername(e, u) # {}
    THEN {[status |-> 409, msg |-> "User already exists", users |-> users]}
    ELSE RegisterInsert(RegisterRequest(u, e, p), salt)

\* second half of POST /register: hash, insert, answer
RegisterCreate(req, salt) ==
    /\ req \in InFlight
    /\ \E r \in RegisterInsert(req, salt) :
          /\ users' = r.users
          /\ plain' = IF r.status = 201 THEN Append(plain, req.password) ELSE plain
          /\ last' = Response("register", r.status, r.msg, 0, TRUE)
    /\ pending' = pending (-) SetToBag({req})
    /\ UNCHANGED <<secret, now, tasks, nextTask, tokens>>

----------------------------------------------------------------------------
(* routes/auth: login, profile *)

\* User.findOne({ email })
FindByEmail(email) == {usr \in users : usr.email = CastEmail(email)}

\* the possible results of POST /login
LoginResults(e, p) ==
    LET found == FindByEmail(e) IN
    IF found = {}
    THEN {[status |-> 401, msg |-> "Invalid credentials", token |-> NoToken]}
    ELSE LET user == CHOOSE usr \in found : TRUE IN
         IF ~ComparePassword(user, p)
         THEN {[status |-> 401, msg |-> "Invalid credentials", token |-> NoToken]}
         ELSE IF secret = ""
         THEN {[status |-> o.status, msg |-> o.msg, token |-> NoToken] :
                  o \in Unhandled}
         ELSE {[status |-> 200, msg |-> "", token |-> JwtSign(user.id, secret)]}

\* a token as the client holds it: the jwt and the time of the login
Issued(token) == [jwt |-> token, at |-> now]

Login(e, p) ==
    \E r \in LoginResults(e, p) :
       /\ r.token # NoToken =>
             (Issued(r.token) \in tokens \/ Cardinality(tokens) < MaxTokens)
       /\ tokens' = IF r.token = NoToken THEN tokens
                    ELSE tokens \cup {Issued(r.token)}
       /\ last' = Response("login", r.status, r.msg, 0, TRUE)
       /\ UNCHANGED <<secret, now, users, tasks, nextTask, pending, plain>>

\* User.findById(req.user?.id)
FindById(id) == {usr \in users : usr.id = id}

ProfileResult(h) ==
    LET g == Auth(h) IN
    IF ~g.next THEN Stopped("profile", g)
    ELSE IF FindById(g.user) = {}
    THEN Response("profile", 404, "User not found", g.user, TRUE)
    ELSE Response("profile", 200, "", g.user, TRUE)

GetProfile(h) ==
    /\ last' = ProfileResult(h)
    /\ UNCHANGED <<secret, now, users, tasks, nextTask, tokens, pending, plain>>

\* a PUT /profile body; a property that is absent (or falsy) is <<>>
ProfileBody(username, email) == [username |-> username, email |-> email]

\* the record after `updates` is applied: only the truthy properties are
\* copied into `updates`, and the update casts them through the schema's
\* setters; the pre-save hook does not run on findByIdAndUpdate
ProfileUpdates(user, body) ==
    [user EXCEPT
        !.username = IF body.username # <<>> THEN CastUsername(body.username)
                                            ELSE @,
        !.email = IF body.email # <<>> THEN CastEmail(body.email) ELSE @]

\* the unique indexes of UserSchema reject an update that takes the username
\* or the email of another record
DuplicateKeyOnUpdate(doc) ==
    \E usr \in users :
       /\ usr.id # doc.id
       /\ (usr.username = doc.username \/ usr.email = doc.email)

\* res.json({ id, username, email, createdAt })
PublicUser(user) ==
    [id |-> user.id, username |-> user.username, email |-> user.email,
     createdAt |-> user.createdAt]

ProfileReply(res, newUsers, body) ==
    [res |-> res, users |-> newUsers, body |-> body]

\* the possible results of PUT /profile
PutProfileResults(h, body) ==
    LET g == Auth(h) IN
    IF ~g.next THEN {ProfileReply(Stopped("putProfile", g), users, <<>>)}
    ELSE IF FindById(g.user) = {}
    THEN {ProfileReply(Response("putProfile", 404, "User not found", g.user, TRUE),
                       users, <<>>)}
    ELSE LET user == CHOOSE usr \in FindById(g.user) : TRUE
             doc == ProfileUpdates(user, body)
         IN  IF DuplicateKeyOnUpdate(doc)
             THEN {ProfileReply(Response("putProfile", o.status, o.msg, g.user, TRUE),
                                users, <<>>) : o \in Unhandled}
             ELSE {ProfileReply(Response("putProfile", 200, "", g.user, TRUE),
                                (users \ {user}) \cup {doc}, <<PublicUser(doc)>>)}

PutProfile(h, body) ==
    \E r \in PutProfileResults(h, body) :
       /\ users' = r.users
       /\ last' = r.res
       /\ UNCHANGED <<secret, now, tasks, nextTask, tokens, pending, plain>>

\* a user record leaves the collection by a hand other than these routes
\* (the case `if (!user)` answers)
RemoveUser(id) ==
    /\ FindById(id) # {}
    /\ users' = users \ FindById(id)
    /\ last' = Response("removeUser", NoResponse, "", id, FALSE)
    /\ UNCHANGED <<secret, now, tasks, nextTask, tokens, pending, plain>>

\* the clock moves to a later instant
Advance(t) ==
    /\ t > now
    /\ now' = t
    /\ last' = Response("tick", NoResponse, "", 0, FALSE)
    /\ UNCHANGED <<secret, users, tasks, nextTask, tokens, pending, plain>>

----------------------------------------------------------------------------
(* routes/tasks *)

TaskFields == {"title", "description", "status", "priority"}

\* a request body: `has` names the properties that are present (the others
\* are undefined and carry a filler value)
Present(b, f) == f \in b.has

\* the JSON a task is answered as (no userId)
TaskJson(t) ==
    [id |-> t.id, title |-> t.title, description |-> t.description,
     status |-> t.status, priority |-> t.priority,
     createdAt |-> t.createdAt, updatedAt |-> t.updatedAt]

TaskReply(res, newTasks, newNext, body) ==
    [res |-> res, tasks |-> newTasks, nextTask |-> newNext, body |-> body]

\* a request that changed nothing and answered no task data
NoEffect(res) == TaskReply(res, tasks, nextTask, <<>>)

\* Task.create({ title, description, status, priority, userId }): schema
\* defaults for undefined paths, trim on title, timestamps
NewTask(user, b) ==
    [id |-> nextTask,
     title |-> Trim(b.title),
     description |-> IF Present(b, "description") THEN b.description ELSE <<>>,
     status |-> IF Present(b, "status") THEN b.status ELSE "todo",
     priority |-> IF Present(b, "priority") THEN b.priority ELSE "medium",
     userId |-> user,
     createdAt |-> now,
     updatedAt |-> now]

\* POST /tasks
CreateResult(h, b) ==
    LET g == Auth(h) IN
    IF ~g.next THEN NoEffect(Stopped("create", g))
    ELSE LET t == NewTask(g.user, b) IN
         TaskReply(Response("create", 201, "", g.user, TRUE),
                   tasks \cup {t}, nextTask + 1, <<TaskJson(t)>>)

CreateTask(h, b) ==
    /\ LET r == CreateResult(h, b) IN
          /\ tasks' = r.tasks
          /\ nextTask' = r.nextTask
          /\ last' = r.res
    /\ UNCHANGED <<secret, now, users, tokens, pending, plain>>

\* mutant: the filter without the owner
OwnedByIdOnly(id, user) == {t \in tasks : t.id = id}

\* the filter { _id: id, userId: req.user?.id }
OwnedById(id, user) == {t \in tasks : t.id = id /\ t.userId = user}

\* mutant: every property copied from the body, present or not
ApplyUpdatesAll(t, b) ==
    [t EXCEPT !.title = Trim(b.title), !.description = b.description,
              !.status = b.status, !.priority = b.priority, !.updatedAt = now]

\* the `updates` object built by PUT /:id, applied as $set, plus the
\* updatedAt that `timestamps: true` adds to every update
ApplyUpdates(t, b) ==
    [t EXCEPT
       !.title = IF Present(b, "title") THEN Trim(b.title) ELSE @,
       !.description = IF Present(b, "description") THEN b.description ELSE @,
       !.status = IF Present(b, "status") THEN b.status ELSE @,
       !.priority = IF Present(b, "priority") THEN b.priority ELSE @,
       !.updatedAt = now]

\* PUT /tasks/:id
PutResult(h, id, b) ==
    LET g == Auth(h) IN
    IF ~g.next THEN NoEffect(Stopped("put", g))
    ELSE LET found == OwnedById(id, g.user) IN
         IF found = {}
         THEN NoEffect(Response("put", 404, "Task not found", g.user, TRUE))
         ELSE LET t == CHOOSE x \in found : TRUE
                  u == ApplyUpdates(t, b) IN
              TaskReply(Response("put", 200, "", g.user, TRUE),
                        (tasks \ {t}) \cup {u}, nextTask, <<TaskJson(u)>>)

PutTask(h, id, b) ==
    LET r == PutResult(h, id, b) IN
    /\ tasks' = r.tasks
    /\ last' = r.res
    /\ UNCHANGED <<secret, now, users, nextTask, tokens, pending, plain>>

\* DELETE /tasks/:id
DeleteResult(h, id) ==
    LET g == Auth(h) IN
    IF ~g.next THEN NoEffect(Stopped("delete", g))
    ELSE LET found == OwnedById(id, g.user) IN
         IF found = {}
         THEN NoEffect(Response("delete", 404, "Task not found", g.user, TRUE))
         ELSE TaskReply(Response("delete", 200, "", g.user, TRUE),
                        tasks \ found, nextTask, <<>>)

DeleteTask(h, id) ==
    LET r == DeleteResult(h, id) IN
    /\ tasks' = r.tasks
    /\ last' = r.res
    /\ UNCHANGED <<secret, now, users, nextTask, tokens, pending, plain>>

\* A PUT or DELETE of a task as two steps: the handler runs to its await
\* (gate passed, `updates` built, updatedAt stamped by the timestamps hook
\* as the query is sent), then the database applies the single-document
\* operation and the handler answers from what the operation returned.
TaskRequest(kind, h, id, b) ==
    [kind |-> kind, header |-> h, user |-> Auth(h).user, id |-> id, body |-> b,
     ts |-> now]

\* the task requests whose operation the database has not applied yet
InFlightTasks == {req \in BagToSet(pending) : "kind" \in DOMAIN req}

TaskSend(kind, h, id, b) ==
    /\ Auth(h).next
    /\ BagCardinality(pending) < MaxInFlight
    /\ pending' = pending (+) SetToBag({TaskRequest(kind, h, id, b)})
    /\ last' = Response("send", NoResponse, "", Auth(h).user, TRUE)
    /\ UNCHANGED <<secret, now, users, tasks, nextTask, tokens, plain>>

\* what an operation returns: the document (in a one-element sequence) or
\* null (the empty sequence), and the collection it leaves
DbResult(doc, newTasks) == [doc |-> doc, tasks |-> newTasks]

\* mutant: the update run with upsert, inserting when no document matches
FindOneAndUpdateUpsert(req) ==
    LET found == OwnedById(req.id, req.user)
        blank == [id |-> req.id, title |-> <<>>, description |-> <<>>,
                  status |-> "todo", priority |-> "medium", userId |-> req.user,
                  createdAt |-> req.ts, updatedAt |-> req.ts]
        t == IF found = {} THEN blank ELSE CHOOSE x \in found : TRUE
        u == [ApplyUpdates(t, req.body) EXCEPT !.updatedAt = req.ts]
    IN  DbResult(<<u>>, (tasks \ {t}) \cup {u})

\* Task.findOneAndUpdate({ _id, userId }, updates, { new: true }): one
\* atomic operation on the document as it is when the operation is applied
FindOneAndUpdate(req) ==
    LET found == OwnedById(req.id, req.user) IN
    IF found = {} THEN DbResult(<<>>, tasks)
    ELSE LET t == CHOOSE x \in found : TRUE
             u == [ApplyUpdates(t, req.body) EXCEPT !.updatedAt = req.ts]
         IN  DbResult(<<u>>, (tasks \ {t}) \cup {u})

\* Task.findOneAndDelete({ _id, userId })
FindOneAndDelete(req) ==
    LET found == OwnedById(req.id, req.user) IN
    IF found = {} THEN DbResult(<<>>, tasks)
    ELSE DbResult(<<CHOOSE x \in found : TRUE>>, tasks \ found)

\* the operation of a request and the lines of the handler after its await
TaskOutcome(req) ==
    LET r == IF req.kind = "put" THEN FindOneAndUpdate(req)
                                 ELSE FindOneAndDelete(req)
    IN  IF r.doc = <<>>
        THEN TaskReply(Response(req.kind, 404, "Task not found", req.user, TRUE),
                       r.tasks, nextTask, <<>>)
        ELSE TaskReply(Response(req.kind, 200, "", req.user, TRUE), r.tasks,
                       nextTask,
                       IF req.kind = "put" THEN <<TaskJson(r.doc[1])>> ELSE <<>>)

TaskApply(req) ==
    /\ req \in InFlightTasks
    /\ tasks' = TaskOutcome(req).tasks
    /\ last' = TaskOutcome(req).res
    /\ pending' = pending (-) SetToBag({req})
    /\ UNCHANGED <<secret, now, users, nextTask, tokens, plain>>

\* a pattern the regular-expression engine rejects (an unclosed group)
RegexInvalid(q) == \E i \in 1..Len(q) : q[i] = "("

\* { $regex: q, $options: 'i' } on a string: unanchored, "." matches any
\* character, every other character of the patterns used here is a literal
RegexTest(q, str) ==
    \E i \in 0..(Len(str) - Len(q)) :
       \A j \in 1..Len(q) :
          q[j] = "." \/ LowerChar(q[j]) = LowerChar(str[i + j])

\* the filter GET /tasks builds; '' and undefined are both falsy
ListFilter(user, query) ==
    {t \in tasks :
        /\ t.userId = user
        /\ (query.status # "" => t.status = query.status)
        /\ (query.priority # "" => t.priority = query.priority)
        /\ (query.q # <<>> => RegexTest(query.q, t.title))}

\* sort({ createdAt: -1 }): any order of the set that never goes from an
\* older task to a newer one (equal createdAt may come in either order)
SortedByCreatedAtDesc(S) ==
    {f \in [1..Cardinality(S) -> S] :
        /\ \A i, j \in 1..Cardinality(S) : i # j => f[i] # f[j]
        /\ \A i \in 1..(Cardinality(S) - 1) :
              f[i].createdAt >= f[i + 1].createdAt}

\* GET /tasks: the possible results
ListResults(h, query) ==
    LET g == Auth(h) IN
    IF ~g.next THEN {NoEffect(Stopped("list", g))}
    ELSE IF query.q # <<>> /\ RegexInvalid(query.q)
    THEN {NoEffect(Response("list", o.status, o.msg, g.user, TRUE)) :
             o \in Unhandled}
    ELSE {TaskReply(Response("list", 200, "", g.user, TRUE), tasks, nextTask,
                    [i \in 1..Len(f) |-> TaskJson(f[i])]) :
             f \in SortedByCreatedAtDesc(ListFilter(g.user, query))}

ListTasks(h, query) ==
    /\ \E r \in ListResults(h, query) : last' = r.res
    /\ UNCHANGED <<secret, now, users, tasks, nextTask, tokens, pending, plain>>

----------------------------------------------------------------------------
(* Construction *)

Secrets == {"", "k1"}

Init ==
    /\ secret \in Secrets
    /\ now = 0
    /\ users = {}
    /\ tasks = {}
    /\ nextTask = 1
    /\ tokens = {}
    /\ pending = EmptyBag
    /\ last = Response("boot", NoResponse, "", 0, FALSE)
    /\ plain = <<>>

----------------------------------------------------------------------------
(* Registration and login: concurrent registers, logins *)

Alice == <<"a", "l", "i">>
Bob == <<"b", "o", "b">>
Usernames == {Alice, Bob}

EmailA == <<"a", "@", "x">>
EmailB == <<"b", "@", "x">>
Emails == {EmailA, <<"A", "@", "X">>, EmailB}

Secret1 == Rep("s", 6)
Long72 == Rep("p", BcryptMaxBytes)
Passwords == {Secret1, Long72 \o <<"x">>, Long72 \o <<"y">>}

NextAuth ==
    \/ \E u \in Usernames, e \in Emails, p \in Passwords : RegisterFind(u, e, p)
    \/ \E req \in InFlight, salt \in Salts : RegisterCreate(req, salt)
    \/ \E e \in Emails, p \in Passwords : Login(e, p)

SpecAuth == Init /\ [][NextAuth]_vars

----------------------------------------------------------------------------
(* Request values of the task routes *)

Titles == {<<"a", "b">>, <<" ", "A">>}
Descriptions == {<<"b">>}
Statuses == {"todo", "completed"}
Priorities == {"medium", "high"}

Body(has, title, description, status, priority) ==
    [has |-> has, title |-> title, description |-> description,
     status |-> status, priority |-> priority]

\* every subset of the four properties, each present property with each of
\* its values (an absent property carries the empty filler)
UpdateBodies ==
    {b \in {Body(has, t, d, st, pr) :
               has \in SUBSET TaskFields,
               t \in Titles \cup {<<>>}, d \in Descriptions \cup {<<>>},
               st \in Statuses \cup {""}, pr \in Priorities \cup {""}} :
        /\ (Present(b, "title") <=> b.title # <<>>)
        /\ (Present(b, "description") <=> b.description # <<>>)
        /\ (Present(b, "status") <=> b.status # "")
        /\ (Present(b, "priority") <=> b.priority # "")}

CreateBodies == {b \in UpdateBodies : Present(b, "title")}

\* bodies with at most one property: every update is a sequence of these
SmallBodies == {b \in UpdateBodies : Cardinality(b.has) <= 1}

Query(q, status, priority) == [q |-> q, status |-> status, priority |-> priority]

Searches == {<<>>, <<"a">>, <<"b">>, <<".">>, <<"(">>}

Queries ==
    {Query(q, st, pr) :
        q \in Searches, st \in Statuses \cup {""}, pr \in Priorities \cup {""}}

NoQuery == Query(<<>>, "", "")
DotQuery == Query(<<".">>, "", "")
OpenQuery == Query(<<"(">>, "", "")

TaskIds == 1..MaxTaskIds

\* the headers clients send: none, or a token login issued
Bearer(token) == <<BearerScheme, token>>

ClientHeaders == {<<>>} \cup {Bearer(t.jwt) : t \in tokens}

----------------------------------------------------------------------------
(* Task runs: they start where the registration runs arrive after          *)
(* register(alice), register(bob), login(alice), login(bob) at time 0 with *)
(* the key configured                                                      *)

TaskUsers ==
    {[id |-> 1, username |-> Alice, email |-> EmailA,
      password |-> BcryptHash(Secret1, "saltA"), createdAt |-> 0],
     [id |-> 2, username |-> Bob, email |-> EmailB,
      password |-> BcryptHash(Secret1, "saltB"), createdAt |-> 0]}

InitTasks ==
    /\ secret = "k1"
    /\ now = 0
    /\ users = TaskUsers
    /\ tasks = {}
    /\ nextTask = 1
    /\ tokens = {Issued(JwtSign(usr.id, secret)) : usr \in users}
    /\ pending = EmptyBag
    /\ last = Response("login", 200, "", 0, TRUE)
    /\ plain = <<Secret1, Secret1>>

\* two owners, every route, titles and statuses only
NextOwnership ==
    \/ \E h \in ClientHeaders, b \in CreateBodies :
          /\ b.has = {"title"}
          /\ nextTask <= MaxTaskIds
          /\ CreateTask(h, b)
    \/ \E h \in ClientHeaders, id \in TaskIds, b \in SmallBodies :
          /\ b.has \subseteq {"status"}
          /\ PutTask(h, id, b)
    \/ \E h \in ClientHeaders, id \in TaskIds : DeleteTask(h, id)
    \/ \E h \in ClientHeaders : ListTasks(h, NoQuery)

SpecOwnership == InitTasks /\ [][NextOwnership]_vars

\* one owner and the clock; the bodies sent are the empty one, a title to
\* trim, and two properties at once
PutBodies ==
    {Body({}, <<>>, <<>>, "", ""),
     Body({"title"}, <<" ", "A">>, <<>>, "", ""),
     Body({"status", "priority"}, <<>>, <<>>, "completed", "high")}

AliceHeaders == {Bearer(t.jwt) : t \in {x \in tokens : x.jwt.id = 1}}

NextUpdate ==
    \/ \E h \in AliceHeaders, b \in CreateBodies :
          /\ b.has = {"title"}
          /\ nextTask <= MaxTaskIds
          /\ CreateTask(h, b)
    \/ \E h \in AliceHeaders, id \in TaskIds, b \in PutBodies : PutTask(h, id, b)
    \/ \E h \in AliceHeaders, id \in TaskIds : DeleteTask(h, id)
    \/ \E t \in 1..MaxTaskNow : Advance(t)

SpecUpdate == InitTasks /\ [][NextUpdate]_vars

\* two owners, creation with every field, the clock, every query
NextList ==
    \/ \E h \in ClientHeaders, b \in CreateBodies :
          /\ nextTask <= MaxTaskIds
          /\ CreateTask(h, b)
    \/ \E h \in ClientHeaders, q \in {NoQuery, DotQuery, OpenQuery} :
          ListTasks(h, q)
    \/ \E t \in 1..MaxTaskNow : Advance(t)

SpecList == InitTasks /\ [][NextList]_vars

\* Profile runs: two accounts, every body of PUT /profile, logins between
Carol == <<"c", "a", "l">>
EmailC == <<"C", "@", "X">>

ProfileBodies ==
    {ProfileBody(u, e) :
        u \in {<<>>, Alice, Bob, Carol, <<" ">> \o Carol},
        e \in {<<>>, EmailA, EmailB, EmailC}}

NextProfile ==
    \/ \E h \in ClientHeaders, b \in ProfileBodies : PutProfile(h, b)
    \/ \E h \in ClientHeaders : GetProfile(h)
    \/ \E e \in {EmailA, EmailB, EmailC}, p \in {Secret1, Long72} : Login(e, p)
    \/ \E usr \in users : RemoveUser(usr.id)

SpecProfile == InitTasks /\ [][NextProfile]_vars

\* Concurrent runs: the owner's task exists (created at time 0 after the
\* logins of InitTasks); updates of two different fields and deletes of it
\* are sent and applied in every order while the clock moves
InitConcurrent ==
    /\ secret = "k1"
    /\ now = 0
    /\ users = TaskUsers
    /\ tasks = {[id |-> 1, title |-> <<"a", "b">>, description |-> <<>>,
                 status |-> "todo", priority |-> "medium", userId |-> 1,
                 createdAt |-> 0, updatedAt |-> 0]}
    /\ nextTask = 2
    /\ tokens = {Issued(JwtSign(usr.id, secret)) : usr \in users}
    /\ pending = EmptyBag
    /\ last = Response("create", 201, "", 1, TRUE)
    /\ plain = <<Secret1, Secret1>>

ConcurrentBodies ==
    {Body({"title"}, <<" ", "A">>, <<>>, "", ""),
     Body({"status"}, <<>>, <<>>, "completed", "")}

NoBody == Body({}, <<>>, <<>>, "", "")

NextConcurrent ==
    \/ \E h \in AliceHeaders, b \in ConcurrentBodies : TaskSend("put", h, 1, b)
    \/ \E h \in AliceHeaders : TaskSend("delete", h, 1, NoBody)
    \/ \E req \in InFlightTasks : TaskApply(req)
    \/ \E t \in 1..MaxTaskNow : Advance(t)

SpecConcurrent == InitConcurrent /\ [][NextConcurrent]_vars

----------------------------------------------------------------------------
(* Gate runs: one account, every header shape on the protected routes.     *)
(* SpecExpiry follows tokens issued at several instants around the 24-hour *)
(* mark; SpecGate follows the five protected routes with and without the   *)
(* signing key, before and after a token's expiry                          *)

\* 24 hours in milliseconds
Day == ExpiresIn * 1000

GateInstants == {500, Day - 1, Day, Day + 500}

\* a token signed with a key that is not the server's
Forged(token) == [token EXCEPT !.key = "evil"]

ForgedFor(id) ==
    [kind |-> "jwt", id |-> id, iat |-> 0, exp |-> 3 * ExpiresIn, key |-> "evil"]

\* absent, scheme without credentials, another scheme, the scheme in another
\* case, a malformed token, wrongly signed tokens, and the issued tokens
GateHeaders ==
    {<<>>, <<BearerScheme>>, <<"Basic ", Malformed>>, Bearer(Malformed),
     Bearer(ForgedFor(1))}
    \cup {Bearer(t.jwt) : t \in tokens}
    \cup {<<"bearer ", t.jwt>> : t \in tokens}
    \cup {Bearer(Forged(t.jwt)) : t \in tokens}

TitleOnly == Body({"title"}, <<"a", "b">>, <<>>, "", "")
StatusOnly == Body({"status"}, <<>>, <<>>, "completed", "")

NextExpiry ==
    \/ RegisterFind(Alice, EmailA, Secret1)
    \/ \E req \in InFlight : RegisterCreate(req, "saltA")
    \/ \E p \in {Secret1, Long72} : Login(EmailA, p)
    \/ \E t \in GateInstants : Advance(t)
    \/ \E h \in GateHeaders : GetProfile(h)
    \/ \E h \in GateHeaders : ListTasks(h, NoQuery)

SpecExpiry == Init /\ [][NextExpiry]_vars

NextGate ==
    \/ RegisterFind(Alice, EmailA, Secret1)
    \/ \E req \in InFlight : RegisterCreate(req, "saltA")
    \/ Login(EmailA, Secret1)
    \/ Advance(Day)
    \/ \E h \in GateHeaders : GetProfile(h)
    \/ \E h \in GateHeaders :
          /\ nextTask <= MaxGateTasks
          /\ CreateTask(h, TitleOnly)
    \/ \E h \in GateHeaders : ListTasks(h, NoQuery)
    \/ \E h \in GateHeaders, id \in 1..MaxGateTasks : PutTask(h, id, StatusOnly)
    \/ \E h \in GateHeaders, id \in 1..MaxGateTasks : DeleteTask(h, id)

SpecGate == Init /\ [][NextGate]_vars

----------------------------------------------------------------------------
(* Properties *)

IdsOf(body) == {body[i].id : i \in 1..Len(body)}

\* C1: for a task of user A and a token login issued to another user B,
\* no answer of GET /tasks to B holds the task, and PUT and DELETE by B with
\* the task's id answer 404, carry no task data and leave the collection
\* (so the task and each of its fields) as it was.
C1_OwnershipIsolation ==
    \A t \in tasks, k \in tokens :
       k.jwt.id # t.userId =>
          LET hdr == Bearer(k.jwt) IN
          /\ \A q \in Queries : \A r \in ListResults(hdr, q) :
                t.id \notin IdsOf(r.body)
          /\ \A b \in UpdateBodies :
                LET r == PutResult(hdr, t.id, b) IN
                /\ r.res.status = 404
                /\ r.body = <<>>
                /\ r.tasks = tasks
                /\ t \in r.tasks
          /\ LET r == DeleteResult(hdr, t.id) IN
                /\ r.res.status = 404
                /\ r.tasks = tasks
                /\ t \in r.tasks

\* C1 witness: every task id is a live task of user 1 and user 2's PUT was
\* just answered 404.
C1_Witness ==
    /\ last.op = "put" /\ last.status = 404 /\ last.user = 2
    /\ nextTask = MaxTaskIds + 1
    /\ Cardinality(tasks) = MaxTaskIds
    /\ \A t \in tasks : t.userId = 1

\* a suspended request (it passed findOne) whose email has since been
\* inserted by another request
LostRace(req) ==
    \E usr \in users : usr.email = CastEmail(req.email)

\* C2: when two registers with the same email both pass findOne before
\* either inserts, the one that inserts second is answered 409 (and creates
\* nothing), whatever salt its hash drew.
C2_RaceLoserConflict ==
    \A req \in InFlight, salt \in Salts :
       LostRace(req) =>
          \A r \in RegisterInsert(req, salt) :
             r.status = 409 /\ r.users = users

SameEmail(a, b) == ToLowerCase(a) = ToLowerCase(b)

\* C3: a register run without interleaving is answered 409 and creates no
\* record when a record with the same email (in any letter case) or the same
\* username exists, and is answered 201 and creates one record otherwise.
C3_SequentialDuplicate ==
    \A u \in Usernames, e \in Emails, p \in Passwords, salt \in Salts :
       LET dup == \E usr \in users : SameEmail(usr.email, e) \/ usr.username = u IN
       \A r \in RegisterSequential(u, e, p, salt) :
          IF dup
          THEN r.status = 409 /\ r.users = users
          ELSE /\ r.status = 201
               /\ users \subseteq r.users
               /\ Cardinality(r.users) = Cardinality(users) + 1

\* C3 witness: one user registered, nothing in flight, and a second register
\* was just answered 409.
C3_Witness ==
    /\ last.op = "register" /\ last.status = 409
    /\ Cardinality(users) = 1
    /\ InFlight = {}

IsSaltedHash(stored) ==
    /\ Len(stored) > 2
    /\ stored[1] = BcryptPrefix
    /\ stored[2] \in Salts

First72(p) == SubSeq(p, 1, IF Len(p) < 72 THEN Len(p) ELSE 72)

\* C4 as claimed: every user's stored password is a salted hash other than
\* the plaintext it registered with, comparePassword accepts that plaintext
\* and rejects every other plaintext.
C4_OnlyOriginalAccepted ==
    \A usr \in users :
       /\ IsSaltedHash(usr.password)
       /\ usr.password # plain[usr.id]
       /\ ComparePassword(usr, plain[usr.id])
       /\ \A p \in Passwords : p # plain[usr.id] => ~ComparePassword(usr, p)

\* C4 amended: every user's stored password is a salted hash other than the
\* plaintext it registered with; comparePassword accepts a plaintext exactly
\* when its first 72 bytes are those of the registered plaintext; and login
\* with the registered email and plaintext is never answered 401 (200 with
\* a token for that user when the key is configured).
C4_CredentialInvariant ==
    \A usr \in users :
       /\ IsSaltedHash(usr.password)
       /\ usr.password # plain[usr.id]
       /\ ComparePassword(usr, plain[usr.id])
       /\ \A p \in Passwords :
             ComparePassword(usr, p) <=> First72(p) = First72(plain[usr.id])
       /\ \A r \in LoginResults(usr.email, plain[usr.id]) :
             /\ r.status # 401
             /\ secret # "" => r.status = 200 /\ r.token.id = usr.id

\* C4 witness: a user registered with a plaintext longer than 72 bytes and a
\* login has just succeeded.
C4_Witness ==
    /\ \E usr \in users : Len(plain[usr.id]) > BcryptMaxBytes
    /\ last.op = "login" /\ last.status = 200

\* C5 as claimed: a token login issued is accepted, as its user, at every
\* time less than 24 hours after the login, and answered 401 at every time
\* more than 24 hours after it.
C5_FullDayFromLogin ==
    \A k \in tokens :
       LET g == Auth(Bearer(k.jwt)) IN
       /\ now - k.at < Day => g.next /\ g.user = k.jwt.id
       /\ now - k.at > Day => ~g.next /\ g.status = 401

\* C5 amended: a token login issued carries iat = the login time cut to
\* whole seconds and exp = iat + 86400; after any operations it is accepted,
\* as its user, while the clock cut to whole seconds is below exp, and
\* answered 401 from then on.  So it is accepted until at least 24 hours
\* less one second after the login and rejected from 24 hours after it.
C5_TokenLifetime ==
    \A k \in tokens :
       LET g == Auth(Bearer(k.jwt)) IN
       /\ k.jwt.iat = k.at \div 1000
       /\ k.jwt.exp = k.jwt.iat + 86400
       /\ \E usr \in users : usr.id = k.jwt.id
       /\ IF now \div 1000 < k.jwt.exp
          THEN g.next /\ g.user = k.jwt.id
          ELSE ~g.next /\ g.status = 401
       /\ now - k.at <= Day - 1000 => g.next
       /\ now - k.at >= Day => ~g.next

\* C5 witness: past the first day, one token has expired, another is still
\* good, and a profile request was just answered for the user.
C5_Witness ==
    /\ \E k \in tokens : now \div 1000 >= k.jwt.exp
    /\ \E k \in tokens : now \div 1000 < k.jwt.exp
    /\ last.op = "profile" /\ last.status = 200 /\ last.user = 1

\* what the protected routes can answer to a request with header h
ProtectedOutcomes(h) ==
    {NoEffect(ProfileResult(h)), CreateResult(h, TitleOnly)}
    \cup {PutResult(h, id, StatusOnly) : id \in 1..MaxGateTasks}
    \cup {DeleteResult(h, id) : id \in 1..MaxGateTasks}
    \cup ListResults(h, NoQuery)

\* the handler did not run and no task changed
ShortCircuited(o) ==
    /\ ~o.res.handled
    /\ o.tasks = tasks
    /\ o.nextTask = nextTask
    /\ o.body = <<>>

\* the header is `Bearer ` followed by a non-empty token
CarriesBearerToken(h) == Len(h) = 2 /\ h[1] = "Bearer "

\* C6 as claimed: with the signing key absent, every request to a protected
\* route, whatever its header, is answered 500 and stops at the gate.
C6_AlwaysConfigError ==
    secret = "" =>
       \A h \in GateHeaders : \A o \in ProtectedOutcomes(h) :
          o.res.status = 500 /\ ShortCircuited(o)

\* C6 amended: with the signing key absent, every request to a protected
\* route stops at the gate; it is answered 500 "Server config error" when
\* its header carries a bearer token (valid or not) and 401 when the header
\* is absent or is not `Bearer <token>`.
C6_FailClosed ==
    secret = "" =>
       \A h \in GateHeaders : \A o \in ProtectedOutcomes(h) :
          /\ ShortCircuited(o)
          /\ IF CarriesBearerToken(h)
             THEN o.res.status = 500 /\ o.res.msg = "Server config error"
             ELSE o.res.status = 401

\* C6 witness: no key, and a protected request was just answered 500.
C6_Witness ==
    /\ secret = ""
    /\ last.op = "profile" /\ last.status = 500 /\ ~last.handled
    /\ users # {}

\* the token is well formed, signed with the server's key and not expired
GoodToken(t) ==
    /\ t.kind = "jwt"
    /\ secret # "" /\ t.key = secret
    /\ now \div 1000 < t.exp

\* missing, not `Bearer <token>`, or a malformed, wrongly signed or expired
\* token
BadHeader(h) == ~(CarriesBearerToken(h) /\ GoodToken(h[2]))

\* C7 as claimed: a request to a protected route with a bad header is
\* answered 401 and stops at the gate; a missing header is rejected without
\* calling jwt.verify.
C7_AlwaysUnauthorized ==
    \A h \in GateHeaders :
       BadHeader(h) =>
          /\ \A o \in ProtectedOutcomes(h) :
                o.res.status = 401 /\ ShortCircuited(o)
          /\ h = <<>> => ~Auth(h).verified

\* C7 amended: a request to a protected route with a bad header stops at
\* the gate; it is answered 401, except that with the signing key absent a
\* header carrying a bearer token is answered 500; a header that is missing
\* or not `Bearer <token>` is rejected without calling jwt.verify.
C7_ShortCircuit ==
    \A h \in GateHeaders :
       BadHeader(h) =>
          /\ \A o \in ProtectedOutcomes(h) :
                /\ ShortCircuited(o)
                /\ o.res.status =
                      (IF secret = "" /\ CarriesBearerToken(h) THEN 500 ELSE 401)
          /\ ~CarriesBearerToken(h) => ~Auth(h).verified

\* C7 witness: the key is configured, a token has expired, a task exists
\* and a PUT was just answered 401 at the gate.
C7_Witness ==
    /\ secret # ""
    /\ \E k \in tokens : now \div 1000 >= k.jwt.exp
    /\ tasks # {}
    /\ last.op = "put" /\ last.status = 401 /\ ~last.handled

\* C8: a PUT answered 200 changes one task, the one with the id owned by the
\* caller: each property present in the body takes the body's value (the
\* title trimmed), each absent property, the id, the owner and createdAt
\* keep theirs, and updatedAt becomes the current time, never earlier than
\* it was; no other task changes.  With an empty body only updatedAt can
\* differ.
C8_PartialUpdateFrame ==
    \A h \in ClientHeaders, id \in TaskIds, b \in UpdateBodies :
       LET r == PutResult(h, id, b) IN
       r.res.status = 200 =>
          \E t \in tasks, u \in r.tasks :
             /\ t.id = id /\ t.userId = r.res.user
             /\ r.tasks = (tasks \ {t}) \cup {u}
             /\ r.body = <<TaskJson(u)>>
             /\ u.id = t.id /\ u.userId = t.userId /\ u.createdAt = t.createdAt
             /\ u.updatedAt = now /\ u.updatedAt >= t.updatedAt
             /\ u.title = (IF "title" \in b.has THEN Trim(b.title) ELSE t.title)
             /\ \A f \in {"description", "status", "priority"} :
                   u[f] = (IF f \in b.has THEN b[f] ELSE t[f])
             /\ b.has = {} => [u EXCEPT !.updatedAt = t.updatedAt] = t

\* C8 witness: a PUT was just answered 200 and some task's updatedAt is
\* later than its createdAt.
C8_Witness ==
    /\ last.op = "put" /\ last.status = 200
    /\ \E t \in tasks : t.updatedAt > t.createdAt

\* q occurs in str as a substring, letter case ignored
ContainsIgnoreCase(q, str) ==
    \E i \in 0..(Len(str) - Len(q)) :
       \A j \in 1..Len(q) : LowerChar(q[j]) = LowerChar(str[i + j])

\* the tasks GET /tasks is claimed to return
Expected(user, query) ==
    {t \in tasks :
        /\ t.userId = user
        /\ (query.status # "" => t.status = query.status)
        /\ (query.priority # "" => t.priority = query.priority)
        /\ (query.q # <<>> => ContainsIgnoreCase(query.q, t.title))}

\* C9: every 200 answer of GET /tasks lists, once each and newest first,
\* exactly the caller's tasks that have the status and priority asked for and
\* whose title holds q as a literal substring, letter case ignored.
C9_ListResult ==
    \A k \in tokens, query \in Queries :
       \A r \in ListResults(Bearer(k.jwt), query) :
          r.res.status = 200 =>
             /\ {r.body[i] : i \in 1..Len(r.body)}
                   = {TaskJson(t) : t \in Expected(k.jwt.id, query)}
             /\ Len(r.body) = Cardinality(Expected(k.jwt.id, query))
             /\ \A i \in 1..(Len(r.body) - 1) :
                   r.body[i].createdAt >= r.body[i + 1].createdAt

\* a plaintext that bcrypt tells apart from the one the user registered with
WrongPassword(usr, p) == First72(p) # First72(plain[usr.id])

\* C10: a login for an unknown email and a login with a wrong password get
\* the same answer, 401 "Invalid credentials" and no token; a login with the
\* registered email and password is answered 200 with a token.
C10_UniformLoginFailure ==
    /\ \A e1 \in Emails, p1 \in Passwords, usr \in users, p2 \in Passwords :
          (\A other \in users : ~SameEmail(other.email, e1))
          /\ WrongPassword(usr, p2)
          => /\ LoginResults(e1, p1) = LoginResults(usr.email, p2)
             /\ \A r \in LoginResults(e1, p1) :
                   /\ r.status = 401
                   /\ r.msg = "Invalid credentials"
                   /\ r.token = NoToken
    /\ \A usr \in users :
          \A r \in LoginResults(usr.email, plain[usr.id]) :
             r.status = 200 /\ r.token # NoToken

\* C11: PUT /profile with the token of a user who has a record is answered
\* 200 and changes that record alone: the username and the email take the
\* supplied values (cast by the schema), a property not supplied keeps its
\* value, and the id, the password hash and createdAt keep theirs; so in
\* every state each user's login with the registration password is answered
\* 200.  With the token of a user who has no record it is answered 404 and
\* changes no record.
C11_ProfileUpdateFrame ==
    /\ \A k \in tokens, b \in ProfileBodies :
          \A r \in PutProfileResults(Bearer(k.jwt), b) :
             IF FindById(k.jwt.id) = {}
             THEN r.res.status = 404 /\ r.users = users
             ELSE \E usr \in FindById(k.jwt.id), new \in r.users :
                     /\ r.res.status = 200
                     /\ r.users = (users \ {usr}) \cup {new}
                     /\ new.id = usr.id
                     /\ new.password = usr.password
                     /\ new.createdAt = usr.createdAt
                     /\ new.username = (IF b.username # <<>>
                                        THEN CastUsername(b.username)
                                        ELSE usr.username)
                     /\ new.email = (IF b.email # <<>> THEN CastEmail(b.email)
                                                      ELSE usr.email)
                     /\ ComparePassword(new, plain[usr.id])
    /\ \A usr \in users :
          \A r \in LoginResults(usr.email, plain[usr.id]) : r.status = 200

\* what the whole handler of the request, run alone on the current state,
\* does and answers
RunAlone(req) ==
    IF req.kind = "put" THEN PutResult(req.header, req.id, req.body)
                        ELSE DeleteResult(req.header, req.id)

\* the step takes effect as the handler run alone at this instant would:
\* same collection (the updated task carrying the updatedAt stamped when
\* the request was sent), same answer; an update keeps every field its body
\* lacks as the field is now, whatever was applied since the request was
\* sent
AtomicEffect(req) ==
    LET r == RunAlone(req)
        Stamp(t) == IF req.kind = "put" /\ t.id = req.id /\ r.res.status = 200
                    THEN [t EXCEPT !.updatedAt = req.ts] ELSE t
    IN  /\ tasks' = {Stamp(t) : t \in r.tasks}
        /\ last' = r.res
        /\ nextTask' = nextTask
        /\ req.kind = "put" /\ last'.status = 200 =>
              \E old \in tasks, new \in tasks' :
                 /\ old.id = req.id /\ new.id = req.id
                 /\ \A f \in TaskFields \ req.body.has : new[f] = old[f]
                 /\ \A f \in {"status"} \cap req.body.has : new[f] = req.body[f]
                 /\ "title" \in req.body.has => new.title = Trim(req.body.title)
        /\ req.kind = "delete" /\ last'.status = 200 =>
              /\ \E old \in tasks : old.id = req.id
              /\ \A t \in tasks' : t.id # req.id

\* a request in flight whose task is gone is answered 404 and leaves the
\* collection as it is
NeverRecreated ==
    \A req \in InFlightTasks :
       OwnedById(req.id, req.user) = {} =>
          /\ TaskOutcome(req).res.status = 404
          /\ TaskOutcome(req).tasks = tasks

====
